---- MODULE Spec2Model ----
(***************************************************************************)
(* Session orchestration layer of claude-code-manager:                     *)
(*   TmuxManager (terminal windows), TtydManager (web-terminal gateways),  *)
(*   SessionDatabase (registry) and SessionOrchestrator, together with     *)
(*   the socket handlers of the server that drive them.                    *)
(* The external world is the tmux server (windows that outlive the         *)
(* orchestrator) and the ttyd child processes.                             *)
(* Around it: the AuthManager and the HTTP routes (AuthSpec, RemoteSpec),  *)
(* the git worktree library behind the repository commands (SocketSpec),   *)
(* the client connections (ClientSpec), the TtydManager on its own with a  *)
(* range of several ports (PoolSpec), the url rewriting of the proxy       *)
(* (ProxySpec), the keys sent to the windows (SendSpec), the upgrade path  *)
(* next to the auth gate (GateSpec), the TunnelManager (TunnelSpec) and    *)
(* sessions under several worktree ids (IdSpec).                           *)
(***************************************************************************)
EXTENDS Integers, Sequences, FiniteSets, TLC

\* ------------------------------------------------------------------ bounds
MaxSids == 2
MaxProcs == 2
NumPorts == 1
PoolSize == 3
MaxTunnels == 3
MaxSends == 2

\* ------------------------------------------------------- program constants
BasePort == 7680
MAX_PORT == BasePort + NumPorts - 1

Sids == 1..MaxSids
Pids == 1..MaxProcs
Ports == BasePort..MAX_PORT
CmdPaths == {"/a", "/b"}
WorktreeIds == {"w1"}
EmptyPath == ""
NoWin == "<no window>"

VARIABLES
  up,         \* the orchestrator process is running
  ext,        \* tmux server: sid -> working directory of window "ccm-"+sid, or NoWin
  sessions,   \* TmuxManager.sessions, a Map in insertion order
  nextSid,    \* next identifier nanoid(8) hands out (identifiers are never reused)
  instances,  \* TtydManager.instances: sid -> [port, pid] or NoInst
  nextPort,   \* TtydManager.nextPort
  procs,      \* ttyd child processes of this orchestrator process, with the
              \* startInstance call that awaits each
  nextPid,    \* next child process slot
  db,         \* sessions table: worktree_path -> row or NoRow
  last,       \* the command or event handled by the last step, and its outcome
  authEnabled,   \* AuthManager.enabled of the authManager singleton
  allowedRepos,  \* allowedRepos of the server, parsed from --repos at launch
  listeners,     \* the connected clients whose listeners are registered on the orchestrator
  range,         \* the arguments TtydManager was constructed with: [startPort, maxPort]
  keys,          \* tmux server: sid -> the keys window "ccm-"+sid has been sent, in order
  tunnel         \* the TunnelManager of the server and the cloudflared children it spawned

\* what belongs to the server around the orchestrator; no orchestrator command touches it
side == <<authEnabled, allowedRepos, listeners, range, keys, tunnel>>

vars == <<up, ext, sessions, nextSid, instances, nextPort, procs, nextPid, db, last,
          authEnabled, allowedRepos, listeners, range, keys, tunnel>>

NoInst == [port |-> 0, pid |-> 0]
NoRow == [id |-> 0, worktreeId |-> "", status |-> ""]
\* no window has been sent a key
NoKeys == [s \in Sids |-> <<>>]

\* cloudflared children this server process may spawn
TunnelChildren == 1..MaxTunnels
NoChild == 0
NoUrl == "<null>"

\* new TunnelManager(...): process = null, publicUrl = null; no child spawned yet
NewTunnelManager ==
  [process |-> NoChild, publicUrl |-> NoUrl,
   child |-> [c \in TunnelChildren |-> "none"], nextChild |-> 1]

NoProc == [st |-> "none", sid |-> 0, port |-> 0, code |-> "", hooked |-> FALSE,
           wait |-> "done", kind |-> "", wId |-> "", path |-> "", created |-> FALSE]

\* The record every step leaves in `last`; fields a step does not use keep these
\* values.  ev: the events the orchestrator emits (every connected client's
\* listeners re-emit them); reply: what the socket handler itself sends to the
\* client that issued the command.
L(op) == [op |-> op, res |-> "", sid |-> 0, pid |-> 0, path |-> "", why |-> "",
          created |-> FALSE, spawned |-> FALSE, gw |-> FALSE, live |-> FALSE, prev |-> 0,
          ev |-> <<>>, reply |-> <<>>, calls |-> 0, emits |-> 0, wins |-> {}, gws |-> {}, rows |-> [p \in CmdPaths |-> NoRow]]

\* ------------------------------------------------------------ TmuxManager
SessionIds(sess) == {sess[i].id : i \in DOMAIN sess}

\* a faulty lookup, which never finds a session
NoSessionFound(sess, path) == 0

\* index of the first session of the Map with this worktreePath, 0 when none
GetSessionByWorktree(sess, path) ==
  IF \E i \in DOMAIN sess : sess[i].worktreePath = path
  THEN CHOOSE i \in DOMAIN sess :
         /\ sess[i].worktreePath = path
         /\ \A j \in DOMAIN sess : sess[j].worktreePath = path => i <= j
  ELSE 0

\* index of the session with this id, 0 when none
GetSession(sess, sid) ==
  IF \E i \in DOMAIN sess : sess[i].id = sid
  THEN CHOOSE i \in DOMAIN sess : sess[i].id = sid
  ELSE 0

TmuxSession(sid, path) == [id |-> sid, worktreePath |-> path, status |-> "running"]

CreateSession(sess, sid, path) == Append(sess, TmuxSession(sid, path))

\* this.sessions.delete(sessionId)
KillSession(sess, sid) == SelectSeq(sess, LAMBDA s : s.id # sid)

SESSION_PREFIX == "ccm-"

\* the name of a tmux session: its prefix and what follows it
WindowName(prefix, rest) == [prefix |-> prefix, rest |-> rest]

\* tmux sessions that were not created by the orchestrator
OtherNames == <<WindowName("main", 0)>>

RECURSIVE CcmNames(_, _)
CcmNames(k, windows) ==
  IF k > MaxSids THEN <<>>
  ELSE IF windows[k] = NoWin THEN CcmNames(k + 1, windows)
  ELSE <<WindowName(SESSION_PREFIX, k)>> \o CcmNames(k + 1, windows)

\* tmux list-sessions -F "#{session_name}"
ListSessions(windows) == OtherNames \o CcmNames(1, windows)

\* a discovery that finds no window
DiscoverNothing(windows, unreadable) == <<>>

RECURSIVE DiscoverFrom(_, _, _, _)
\* the loop over the session names: a name with the prefix becomes a record under
\* the rest of the name; a window whose working directory cannot be read (sid in
\* unreadable) is recorded with the empty path
DiscoverFrom(k, names, windows, unreadable) ==
  IF k > Len(names) THEN <<>>
  ELSE IF names[k].prefix # SESSION_PREFIX
  THEN DiscoverFrom(k + 1, names, windows, unreadable)
  ELSE <<TmuxSession(names[k].rest,
                     IF names[k].rest \in unreadable THEN EmptyPath
                     ELSE windows[names[k].rest])>>
         \o DiscoverFrom(k + 1, names, windows, unreadable)

DiscoverExistingSessions(windows, unreadable) ==
  DiscoverFrom(1, ListSessions(windows), windows, unreadable)

\* ------------------------------------------------------------ TtydManager
UsedPorts(inst) == {inst[s].port : s \in {t \in DOMAIN inst : inst[t] # NoInst}}

\* the loop of findAvailablePort in a manager constructed with maxPort: the first
\* port of np..maxPort that no instance holds, 0 for "No available ports for ttyd"
ScanPorts(inst, np, maxPort) ==
  IF \E p \in np..maxPort : p \notin UsedPorts(inst)
  THEN CHOOSE p \in np..maxPort :
         /\ p \notin UsedPorts(inst)
         /\ \A q \in np..maxPort : q \notin UsedPorts(inst) => p <= q
  ELSE 0

\* nextPort after the port was handed out: the wrap goes to the literal 7680
WrapNextPort(port, maxPort) == IF port + 1 > maxPort THEN BasePort ELSE port + 1

\* the port found, 0 for "No available ports for ttyd"
FindAvailablePort(inst, np) == ScanPorts(inst, np, MAX_PORT)

NextPortAfter(port) == WrapNextPort(port, MAX_PORT)

\* process.kill("SIGTERM") on a child: a child that already ended is not affected
Kill(ps, pid) ==
  IF pid \in DOMAIN ps /\ ps[pid].st \in {"starting", "listening"}
  THEN [ps EXCEPT ![pid].st = "dying", ![pid].code = "signal"]
  ELSE ps

\* stopInstance: the instances Map afterwards
StopInstanceMap(inst, sid) == [inst EXCEPT ![sid] = NoInst]

\* stopInstance: the child processes afterwards
StopInstanceProcs(inst, ps, sid) ==
  IF inst[sid] = NoInst THEN ps ELSE Kill(ps, inst[sid].pid)

\* ------------------------------------------------------- SessionDatabase
DbGet(d, path) == IF path \in DOMAIN d THEN d[path] ELSE NoRow

\* UPDATE sessions SET status = ? WHERE id = ?
UpdateSessionStatus(d, id, status) ==
  [p \in DOMAIN d |-> IF d[p] # NoRow /\ d[p].id = id
                      THEN [d[p] EXCEPT !.status = status] ELSE d[p]]

\* startSession's try { createSession } catch { updateSessionStatus }:
\* the INSERT fails on UNIQUE(worktree_path) when the path already has a row
SaveSession(d, id, wId, path) ==
  IF d[path] = NoRow
  THEN [d EXCEPT ![path] = [id |-> id, worktreeId |-> wId, status |-> "active"]]
  ELSE UpdateSessionStatus(d, id, "active")

\* --------------------------------------------------- SessionOrchestrator
MapTmuxStatus(status) ==
  CASE status = "running" -> "active"
    [] status = "starting" -> "idle"
    [] status = "stopped" -> "stopped"
    [] status = "error" -> "error"
    [] OTHER -> "idle"

ToManagedSession(s, wId, inst) ==
  [id |-> s.id, worktreeId |-> wId, worktreePath |-> s.worktreePath,
   status |-> MapTmuxStatus(s.status),
   ttydPort |-> IF inst[s.id] = NoInst THEN 0 ELSE inst[s.id].port]

\* getAllSessions(), in the order of the Map
GetAllSessions(sess, inst, d) ==
  [i \in DOMAIN sess |-> ToManagedSession(sess[i], DbGet(d, sess[i].worktreePath).worktreeId, inst)]

\* new TmuxManager(), new TtydManager(), an empty sessions table
OrchestratorInit ==
  /\ up = TRUE
  /\ ext = [s \in Sids |-> NoWin]
  /\ sessions = <<>>
  /\ nextSid = 1
  /\ instances = [s \in Sids |-> NoInst]
  /\ nextPort = BasePort
  /\ procs = [p \in Pids |-> NoProc]
  /\ nextPid = 1
  /\ db = [p \in CmdPaths |-> NoRow]

\* the server launched without --remote and without --repos, no client connected
ServerInit ==
  /\ authEnabled = FALSE
  /\ allowedRepos = {}
  /\ listeners = {}
  /\ range = [startPort |-> BasePort, maxPort |-> MAX_PORT]
  /\ keys = NoKeys
  /\ tunnel = NewTunnelManager

Init ==
  /\ OrchestratorInit
  /\ ServerInit
  /\ last = L("init")

\* the sid a successful start of this path has returned and no stop has ended
\* since: the sid of the path's registry row, when the row is active and the
\* window record of that sid still exists (identifiers are never reused)
StartedSid(d, sess, path) ==
  IF d[path] # NoRow /\ d[path].status = "active" /\ d[path].id \in SessionIds(sess)
  THEN d[path].id ELSE 0

StartedProc(kind, sid, port, wId, path, created) ==
  [st |-> "starting", sid |-> sid, port |-> port, code |-> "", hooked |-> FALSE,
   wait |-> "pending", kind |-> kind, wId |-> wId, path |-> path, created |-> created]

\* a call that is never resumed
NeverSettled(p) == p

\* the awaiting call has been resumed: only the child itself is still tracked
Settle(p) == [p EXCEPT !.wait = "done", !.kind = "", !.wId = "", !.path = "", !.created = FALSE]

\* the child has ended and its exit event has been delivered; a call that still
\* waits for it stays until its timer fires
Gone(p) == IF p.wait = "done" THEN NoProc ELSE [p EXCEPT !.st = "gone", !.code = ""]

Recorded(inst, ps, pid) ==
  /\ ps[pid].sid \in DOMAIN inst
  /\ inst[ps[pid].sid] # NoInst
  /\ inst[ps[pid].sid].pid = pid

InstanceSids(inst) == {s \in DOMAIN inst : inst[s] # NoInst}

\* what the handlers of session:start and session:restore send to their client
HandlerReply(kind, ok) ==
  IF kind = "start"
  THEN <<IF ok THEN "session:created" ELSE "session:error">>
  ELSE <<IF ok THEN "session:restored" ELSE "session:restore_failed">>

\* ttydManager.startInstance up to its await, for a sid without an instance:
\* findAvailablePort throws, or a child is spawned and the call waits for readiness
StartInstance(op, sid, wId, path, created) ==
  LET port == FindAvailablePort(instances, nextPort) IN
  IF port = 0
  THEN /\ last' = [L(op) EXCEPT !.res = "error", !.why = "noport", !.sid = sid,
                                !.path = path, !.created = created,
                                !.reply = HandlerReply(op, FALSE),
                                !.wins = SessionIds(sessions),
                                !.gws = InstanceSids(instances), !.rows = db]
       /\ UNCHANGED <<instances, nextPort, procs, nextPid, db>>
  ELSE /\ nextPid <= MaxProcs
       /\ procs' = [procs EXCEPT ![nextPid] = StartedProc(op, sid, port, wId, path, created)]
       /\ nextPid' = nextPid + 1
       /\ nextPort' = NextPortAfter(port)
       /\ last' = [L(op) EXCEPT !.res = "pending"]
       /\ UNCHANGED <<instances, db>>

\* a startSession that emits session:created whatever it did
AlwaysCreated(created) == "session:created"

\* the event startSession emits when startInstance has returned
StartEvent(created) == IF created THEN "session:created" ELSE "session:restored"

\* socket.on("session:start") -> SessionOrchestrator.startSession, up to its await
StartSession(wId, wPath) ==
  LET idx == GetSessionByWorktree(sessions, wPath)
      reuse == idx # 0
      sid == IF reuse THEN sessions[idx].id ELSE nextSid
  IN /\ up
     /\ ~reuse => nextSid <= MaxSids
     /\ sessions' = IF reuse THEN sessions ELSE CreateSession(sessions, sid, wPath)
     /\ ext' = IF reuse THEN ext ELSE [ext EXCEPT ![sid] = wPath]
     /\ nextSid' = IF reuse THEN nextSid ELSE nextSid + 1
     /\ IF reuse /\ instances[sid] # NoInst
        THEN /\ last' = [L("start") EXCEPT !.res = "ok", !.sid = sid, !.path = wPath,
                                           !.prev = StartedSid(db, sessions, wPath),
                                           !.ev = <<StartEvent(FALSE)>>,
                                           !.reply = HandlerReply("start", TRUE)]
             /\ UNCHANGED <<instances, nextPort, procs, nextPid, db>>
        ELSE StartInstance("start", sid, wId, wPath, ~reuse)
     /\ UNCHANGED up
     /\ UNCHANGED side

\* socket.on("session:restore") -> SessionOrchestrator.restoreSession, up to its await
RestoreSession(wPath) ==
  LET idx == GetSessionByWorktree(sessions, wPath)
      sid == IF idx = 0 THEN 0 ELSE sessions[idx].id
  IN /\ up
     /\ IF idx = 0
        THEN /\ last' = [L("restore") EXCEPT !.res = "none", !.path = wPath,
                                             !.reply = HandlerReply("restore", FALSE)]
             /\ UNCHANGED <<instances, nextPort, procs, nextPid, db>>
        ELSE IF instances[sid] # NoInst
        THEN /\ last' = [L("restore") EXCEPT !.res = "ok", !.sid = sid, !.path = wPath,
                                             !.ev = <<"session:restored">>,
                                             !.reply = HandlerReply("restore", TRUE)]
             /\ UNCHANGED <<instances, nextPort, procs, nextPid, db>>
        ELSE StartInstance("restore", sid, "", wPath, FALSE)
     /\ UNCHANGED <<up, ext, sessions, nextSid>>
     /\ UNCHANGED side

\* the call awaiting child pid is rejected (a timeout, or the child's exit with a
\* non-zero code): startInstance throws, startSession / restoreSession rethrow and
\* the socket handler reports session:error / session:restore_failed
RejectedLast(p, why) ==
  [L(p.kind) EXCEPT !.res = "error", !.why = why, !.sid = p.sid,
                    !.created = p.created, !.spawned = TRUE,
                    !.reply = HandlerReply(p.kind, FALSE)]

\* a bound port cannot be bound again: ttyd announces "Listening" only on a free port
PortFree(ps, pid) ==
  \A q \in DOMAIN ps : q # pid /\ ps[q].st = "listening" => ps[q].port # ps[pid].port

\* The child announces "Listening" on stderr.  When its startInstance call still
\* waits, the call resumes: the instance is recorded, the exit handler installed,
\* and startSession / restoreSession run to their end.
Ready(pid) ==
  LET p == procs[pid] IN
  /\ up
  /\ p.st = "starting"
  /\ PortFree(procs, pid)
  /\ IF p.wait = "pending"
     THEN /\ instances' = [instances EXCEPT ![p.sid] = [port |-> p.port, pid |-> pid]]
          /\ procs' = [procs EXCEPT ![pid] = [Settle(p) EXCEPT !.st = "listening",
                                                               !.hooked = TRUE]]
          /\ db' = IF p.kind = "start" /\ p.created
                   THEN SaveSession(db, p.sid, p.wId, p.path) ELSE db
          /\ last' = [L(p.kind) EXCEPT !.res = "ok", !.sid = p.sid, !.path = p.path,
                                       !.created = p.created, !.spawned = TRUE,
                                       !.prev = IF p.kind = "start"
                                                THEN StartedSid(db, sessions, p.path) ELSE 0,
                                       !.ev = <<IF p.kind = "start" THEN StartEvent(p.created)
                                                ELSE "session:restored">>,
                                       !.reply = HandlerReply(p.kind, TRUE)]
     ELSE /\ procs' = [procs EXCEPT ![pid].st = "listening"]
          /\ last' = L("step")
          /\ UNCHANGED <<instances, db>>
  /\ UNCHANGED <<up, ext, sessions, nextSid, nextPort, nextPid>>
  /\ UNCHANGED side

\* the 5 s timer of startInstance fires while the call still waits
Timeout(pid) ==
  LET p == procs[pid] IN
  /\ up
  /\ p.wait = "pending"
  /\ procs' = [procs EXCEPT ![pid] = IF p.st = "gone" THEN NoProc ELSE Settle(p)]
  /\ last' = RejectedLast(p, "timeout")
  /\ UNCHANGED <<up, ext, sessions, nextSid, instances, nextPort, nextPid, db>>
  /\ UNCHANGED side

\* how a child ends before its instance is recorded: exit with code 0, end by a
\* signal (exit with code null), exit with another code, or an 'error' event
ExitCodes == {"zero", "null", "nonzero", "error"}

\* A child without the exit handler of a recorded instance ends on its own.  Its
\* end shows only in its exit (or error) event, so the two are one step: the
\* handlers of the waiting call reject it on 'error' and on an exit whose code is
\* neither 0 nor null.
EarlyExit(pid, code) ==
  LET p == procs[pid]
      rejects == p.wait = "pending" /\ code \in {"nonzero", "error"}
  IN /\ up
     /\ p.st \in {"starting", "listening"}
     /\ ~p.hooked
     /\ p.wait = "done" => code = "zero"
     /\ procs' = [procs EXCEPT ![pid] = Gone(IF rejects THEN Settle(p) ELSE p)]
     /\ last' = IF rejects THEN RejectedLast(p, "exit") ELSE L("step")
     /\ UNCHANGED <<up, ext, sessions, nextSid, instances, nextPort, nextPid, db>>
     /\ UNCHANGED side

\* the child of a recorded instance ends on its own
ProcExit(pid) ==
  /\ up
  /\ procs[pid].st = "listening"
  /\ procs[pid].hooked
  /\ procs' = [procs EXCEPT ![pid].st = "dying", ![pid].code = "self"]
  /\ last' = L("step")
  /\ UNCHANGED <<up, ext, sessions, nextSid, instances, nextPort, nextPid, db>>
  /\ UNCHANGED side

\* a faulty exit handler, which forgets this.instances.delete(sessionId)
ExitHandlerKeepsRecord(inst, sid) == inst

\* the exit handler startInstance installs once the child is ready
ExitHandlerMap(inst, sid) == [inst EXCEPT ![sid] = NoInst]

\* the exit event of a child that carries the exit handler is delivered
ExitEvent(pid) ==
  LET p == procs[pid] IN
  /\ up
  /\ p.st = "dying"
  /\ instances' = ExitHandlerMap(instances, p.sid)
  /\ procs' = [procs EXCEPT ![pid] = NoProc]
  /\ last' = [L("exit") EXCEPT !.sid = p.sid, !.why = p.code,
                               !.live = Recorded(instances, procs, pid),
                               !.ev = <<"instance:stopped">>]
  /\ UNCHANGED <<up, ext, sessions, nextSid, nextPort, nextPid, db>>
  /\ UNCHANGED side

\* session:stopped emissions of one stopSession call: the handler forwarding
\* TmuxManager's session:stopped (only when killSession found a record), then
\* stopSession's own emit
StopEvents(live) ==
  (IF live THEN <<"session:stopped">> ELSE <<>>) \o <<"session:stopped">>

\* socket.on("session:stop") -> SessionOrchestrator.stopSession.  `last` counts
\* the consecutive stop calls for one sid and their emissions.
StopSession(sid) ==
  LET idx == GetSession(sessions, sid)
      live == idx # 0
      path == IF live THEN sessions[idx].worktreePath ELSE ""
      ev == StopEvents(live)
      again == last.op = "stop" /\ last.sid = sid
  IN /\ up
     /\ again => last.calls < 2
     /\ procs' = StopInstanceProcs(instances, procs, sid)
     /\ instances' = StopInstanceMap(instances, sid)
     /\ sessions' = KillSession(sessions, sid)
     /\ ext' = IF live THEN [ext EXCEPT ![sid] = NoWin] ELSE ext
     /\ db' = UpdateSessionStatus(db, sid, "stopped")
     /\ last' = [L("stop") EXCEPT !.sid = sid, !.path = path, !.ev = ev,
                                  !.live = IF again THEN last.live ELSE live,
                                  !.calls = IF again THEN last.calls + 1 ELSE 1,
                                  !.emits = IF again THEN last.emits + Len(ev) ELSE Len(ev),
                                  !.gw = instances[sid] # NoInst]
     /\ UNCHANGED <<up, nextSid, nextPort, nextPid>>
     /\ UNCHANGED side

\* TmuxManager.sendKeys / sendSpecialKey: "notfound" when the Map has no record
\* (throw new Error("Session not found")), "failed" when tmux send-keys fails
\* because the window no longer exists (execSync throws), else "ok"
SendKeysResult(sess, windows, sid) ==
  IF GetSession(sess, sid) = 0 THEN "notfound"
  ELSE IF windows[sid] = NoWin THEN "failed"
  ELSE "ok"

\* what the handlers of session:send and session:key send to their client: nothing
\* when the call returned, session:error with the message when it threw
SendReply(r) == IF r = "ok" THEN <<>> ELSE <<"session:error">>

\* socket.on("session:send") -> SessionOrchestrator.sendMessage; the handler's
\* reply is SendReply(SendKeysResult(sessions, ext, sid))
SendMessage(sid) ==
  LET r == SendKeysResult(sessions, ext, sid) IN
  /\ up
  /\ db' = IF r = "ok" THEN UpdateSessionStatus(db, sid, "active") ELSE db
  /\ last' = L("step")
  /\ UNCHANGED <<up, ext, sessions, nextSid, instances, nextPort, procs, nextPid>>
  /\ UNCHANGED side

\* socket.on("session:key") -> SessionOrchestrator.sendSpecialKey, with the same
\* reply as session:send
SendSpecialKey(sid) ==
  /\ up
  /\ last' = L("step")
  /\ UNCHANGED <<up, ext, sessions, nextSid, instances, nextPort, procs, nextPid, db>>
  /\ UNCHANGED side

WorktreeReplies == {"worktree:list", "worktree:error"}

\* socket.on("worktree:delete"): the session the lookup by path finds is stopped,
\* then deleteWorktree and listWorktrees run; reply is worktree:list when both
\* succeed and worktree:error when one of them throws.  `last` keeps the details
\* of a delete that found a session.
WorktreeDelete(wPath, reply) ==
  LET idx == GetSessionByWorktree(sessions, wPath)
      found == idx # 0
      sid == IF found THEN sessions[idx].id ELSE 0
  IN /\ up
     /\ procs' = IF found THEN StopInstanceProcs(instances, procs, sid) ELSE procs
     /\ instances' = IF found THEN StopInstanceMap(instances, sid) ELSE instances
     /\ sessions' = IF found THEN KillSession(sessions, sid) ELSE sessions
     /\ ext' = IF found THEN [ext EXCEPT ![sid] = NoWin] ELSE ext
     /\ db' = IF found THEN UpdateSessionStatus(db, sid, "stopped") ELSE db
     /\ last' = IF found
                THEN [L("wtdelete") EXCEPT !.path = wPath, !.sid = sid, !.live = TRUE,
                                           !.res = IF reply = "worktree:list" THEN "ok" ELSE "error",
                                           !.ev = StopEvents(TRUE), !.reply = <<reply>>]
                ELSE L("step")
     /\ UNCHANGED <<up, nextSid, nextPort, nextPid>>
     /\ UNCHANGED side

\* ttydManager.cleanup(): SIGTERM to the child of every recorded instance
CleanupProcs(inst, ps) ==
  [q \in DOMAIN ps |-> IF Recorded(inst, ps, q) THEN Kill(ps, q)[q] ELSE ps[q]]

\* ttydManager.cleanup(): this.instances.clear()
CleanupMap(inst) == [s \in DOMAIN inst |-> NoInst]

\* a faulty cleanup, which drops the window records as well
CleanupDropsWindows(sess) == <<>>

\* SessionOrchestrator.cleanup() does not call tmuxManager.cleanup()
CleanupSessions(sess) == sess

\* SIGTERM / SIGINT: shutdown() runs sessionOrchestrator.cleanup() and the process ends
Shutdown ==
  /\ up
  /\ up' = FALSE
  /\ procs' = CleanupProcs(instances, procs)
  /\ instances' = CleanupMap(instances)
  /\ sessions' = CleanupSessions(sessions)
  /\ last' = [L("cleanup") EXCEPT !.wins = SessionIds(sessions),
                                  !.gws = InstanceSids(instances)]
  /\ UNCHANGED <<ext, nextSid, nextPort, nextPid, db>>
  /\ UNCHANGED side

\* a new orchestrator process: new TmuxManager() discovers the "ccm-" windows,
\* new TtydManager() starts with no instance and no child
Construct(unreadable) ==
  /\ ~up
  /\ up' = TRUE
  /\ sessions' = DiscoverExistingSessions(ext, unreadable)
  /\ instances' = [s \in Sids |-> NoInst]
  /\ nextPort' = BasePort
  /\ procs' = [p \in Pids |-> NoProc]
  /\ nextPid' = 1
  /\ last' = L("construct")
  /\ UNCHANGED <<ext, nextSid, db>>
  /\ UNCHANGED side

\* a window ends outside the orchestrator (its shell exits, tmux kill-session)
ExternalKill(sid) ==
  /\ ext[sid] # NoWin
  /\ ext' = [ext EXCEPT ![sid] = NoWin]
  /\ last' = L("step")
  /\ UNCHANGED <<up, sessions, nextSid, instances, nextPort, procs, nextPid, db>>
  /\ UNCHANGED side

\* the worktreeId getSession(sid), getSessionByWorktree(path), getAllSessions()
\* and restoreSession(path) project for the window record of sid: the one of the
\* registry row of the record's path, "" when the path has no row
NoSession == "<undefined>"

WorktreeIdOf(sess, d, sid) ==
  LET i == GetSession(sess, sid) IN
  IF i = 0 THEN NoSession ELSE DbGet(d, sess[i].worktreePath).worktreeId

\* a proxy that forwards every request
ProxyAlwaysForwards(sess, inst, d, sid) == [status |-> 200, target |-> BasePort]

\* app.use("/ttyd/:sessionId"): 404 when getSession(sid) finds nothing or the
\* Session has no ttydPort, else the request is forwarded to 127.0.0.1:target
ProxyHttp(sess, inst, d, sid) ==
  LET idx == GetSession(sess, sid) IN
  IF idx = 0 THEN [status |-> 404, target |-> 0]
  ELSE LET m == ToManagedSession(sess[idx], DbGet(d, sess[idx].worktreePath).worktreeId, inst)
       IN IF m.ttydPort = 0 THEN [status |-> 404, target |-> 0]
          ELSE [status |-> 200, target |-> m.ttydPort]

\* server.on("upgrade") for a /ttyd/<sid> path: forwarded to ws://127.0.0.1:target,
\* or the socket is destroyed
ProxyUpgrade(sess, inst, d, sid) ==
  LET idx == GetSession(sess, sid) IN
  IF idx = 0 THEN [socket |-> "destroyed", target |-> 0]
  ELSE LET m == ToManagedSession(sess[idx], DbGet(d, sess[idx].worktreePath).worktreeId, inst)
       IN IF m.ttydPort = 0 THEN [socket |-> "destroyed", target |-> 0]
          ELSE [socket |-> "proxied", target |-> m.ttydPort]

\* ---------------------------------------------------- proxy url rewriting
\* A request url is the sequence of its tokens: "/ttyd/1/ws" is
\* <<"/", "ttyd", "/", "1", "/", "ws">>.
SidText(sid) == IF sid = 1 THEN "1" ELSE "2"

\* the text `/ttyd/${sessionId}`
RoutePrefix(sid) == <<"/", "ttyd", "/", SidText(sid)>>

\* text.indexOf(pat) + 1: the first position where pat occurs in text, 0 when none
IndexOf(text, pat) ==
  LET at == {i \in 1..(Len(text) - Len(pat) + 1) :
               SubSeq(text, i, i + Len(pat) - 1) = pat}
  IN IF at = {} THEN 0 ELSE CHOOSE i \in at : \A j \in at : i <= j

\* text.replace(pat, ""): the first occurrence of pat is removed
ReplaceFirst(text, pat) ==
  LET i == IndexOf(text, pat) IN
  IF i = 0 THEN text
  ELSE SubSeq(text, 1, i - 1) \o SubSeq(text, i + Len(pat), Len(text))

\* req.url inside a handler mounted with app.use("/ttyd/:sessionId"): the router
\* has removed the mount path, and what is left starts with "/"
MountedUrl(url, sid) ==
  LET left == SubSeq(url, Len(RoutePrefix(sid)) + 1, Len(url)) IN
  IF left = <<>> \/ Head(left) # "/" THEN <<"/">> \o left ELSE left

\* the url ttydProxy.web sends upstream
WebUpstreamUrl(url, sid) ==
  LET r == ReplaceFirst(MountedUrl(url, sid), RoutePrefix(sid)) IN
  IF r = <<>> THEN <<"/">> ELSE r

\* the url ttydProxy.ws sends upstream: req.url of the upgrade request, untouched
WsUpstreamUrl(url, sid) == url

\* what follows /ttyd/<sid> in the requests of the model
RestPaths ==
  { <<>>, <<"/">>, <<"/", "ws">>, <<"/", "a", "/", "b">>,
    <<"/", "ttyd", "/", "1", "/", "ws">>,
    <<"/", "a", "/", "ttyd", "/", "1">>,
    <<"/", "a", "/", "ttyd", "/", "2", "/", "b">> }

\* GET /ttyd/<sid><rest>: 404, or forwarded with the rewritten url
ProxyWeb(sid, rest) ==
  LET r == ProxyHttp(sessions, instances, db, sid)
      url == RoutePrefix(sid) \o rest
  IN /\ up
     /\ last' = [op |-> "web", sid |-> sid, rest |-> rest, status |-> r.status,
                 target |-> r.target,
                 upstream |-> IF r.status = 200 THEN WebUpstreamUrl(url, sid) ELSE <<>>]
     /\ UNCHANGED <<up, ext, sessions, nextSid, instances, nextPort, procs, nextPid, db>>
     /\ UNCHANGED side

\* an upgrade request for /ttyd/<sid><rest>: destroyed, or forwarded
ProxyWs(sid, rest) ==
  LET u == ProxyUpgrade(sessions, instances, db, sid)
      url == RoutePrefix(sid) \o rest
  IN /\ up
     /\ last' = [op |-> "ws", sid |-> sid, rest |-> rest,
                 status |-> IF u.socket = "proxied" THEN 200 ELSE 0,
                 target |-> u.target,
                 upstream |-> IF u.socket = "proxied" THEN WsUpstreamUrl(url, sid) ELSE <<>>]
     /\ UNCHANGED <<up, ext, sessions, nextSid, instances, nextPort, procs, nextPid, db>>
     /\ UNCHANGED side

\* ------------------------------------------------- keys sent to the windows
\* A message is the sequence of its characters.
Messages == { <<"l", "s">>, <<"a", "\\", "b">>, <<"i", "t", "'", "s">> }

RECURSIVE EscapeBackslash(_)
\* input.replace(/\\/g, "\\\\")
EscapeBackslash(input) ==
  IF input = <<>> THEN <<>>
  ELSE (IF Head(input) = "\\" THEN <<"\\", "\\">> ELSE <<Head(input)>>)
         \o EscapeBackslash(Tail(input))

RECURSIVE EscapeQuote(_)
\* .replace(/'/g, "'\\''")
EscapeQuote(input) ==
  IF input = <<>> THEN <<>>
  ELSE (IF Head(input) = "'" THEN <<"'", "\\", "'", "'">> ELSE <<Head(input)>>)
         \o EscapeQuote(Tail(input))

EscapeInput(input) == EscapeQuote(EscapeBackslash(input))

RECURSIVE ShellWord(_, _)
\* the argument /bin/sh hands to tmux for a word of the command line: inside
\* single quotes every character stands for itself, outside them a backslash
\* quotes the next character
ShellWord(word, quoted) ==
  IF word = <<>> THEN <<>>
  ELSE IF quoted
  THEN IF Head(word) = "'" THEN ShellWord(Tail(word), FALSE)
       ELSE <<Head(word)>> \o ShellWord(Tail(word), TRUE)
  ELSE IF Head(word) = "'" THEN ShellWord(Tail(word), TRUE)
  ELSE IF Head(word) = "\\" /\ Len(word) >= 2
  THEN <<word[2]>> \o ShellWord(Tail(Tail(word)), FALSE)
  ELSE <<Head(word)>> \o ShellWord(Tail(word), FALSE)

\* the text `tmux send-keys -t ... -l '${escapedInput}'` types into the window
LiteralSent(input) == ShellWord(<<"'">> \o EscapeInput(input) \o <<"'">>, FALSE)

\* the two tmux calls of one sendKeys, tagged with the command they belong to
TextKey(input, n) == [key |-> "text", text |-> LiteralSent(input), send |-> n]
EnterKey(n) == [key |-> "Enter", text |-> <<>>, send |-> n]

\* a window that receives a key in front of the last one it has received
KeyOvertakes(ks, key) ==
  IF ks = <<>> THEN <<key>>
  ELSE SubSeq(ks, 1, Len(ks) - 1) \o <<key, ks[Len(ks)]>>

\* execSync(`tmux send-keys ...`) has returned: the window has received the key
\* after everything it received before
KeyReceived(ks, key) == Append(ks, key)

\* the session:send commands handled so far that reached tmux
SendsSoFar(k) == UNION {{k[s][i].send : i \in DOMAIN k[s]} : s \in DOMAIN k}

\* socket.on("session:send") -> SessionOrchestrator.sendMessage -> sendKeys.
\* The window may end between the two tmux calls (cut): the text has been typed
\* and the call for Enter throws.
SessionSend(sid, input, cut) ==
  LET r == SendKeysResult(sessions, ext, sid)
      n == Cardinality(SendsSoFar(keys)) + 1
      typed == KeyReceived(keys[sid], TextKey(input, n))
  IN /\ up
     /\ n <= MaxSends
     /\ cut => r = "ok"
     /\ keys' = IF r # "ok" THEN keys
                ELSE IF cut THEN [keys EXCEPT ![sid] = typed]
                ELSE [keys EXCEPT ![sid] = KeyReceived(typed, EnterKey(n))]
     /\ ext' = IF cut THEN [ext EXCEPT ![sid] = NoWin] ELSE ext
     /\ db' = IF r = "ok" /\ ~cut THEN UpdateSessionStatus(db, sid, "active") ELSE db
     /\ last' = [op |-> "send", sid |-> sid, input |-> input,
                 res |-> IF cut THEN "failed" ELSE r,
                 reply |-> SendReply(IF cut THEN "failed" ELSE r)]
     /\ UNCHANGED <<up, sessions, nextSid, instances, nextPort, procs, nextPid>>
     /\ UNCHANGED <<authEnabled, allowedRepos, listeners, range, tunnel>>

\* ------------------------------------------------------------ AuthManager
\* a header or query parameter the request does not carry
NoHeader == "<undefined>"

\* this.token, generated once when the process starts
ProcessToken == "T"

\* A Host header is the sequence of its pieces, where each ":" is a piece of its
\* own: "localhost:3001" is <<"localhost", ":", "3001">>; <<>> when the request
\* has none.
HostValues ==
  { <<>>,
    <<"localhost", ":", "3001">>,
    <<"127.0.0.1">>,
    <<"[", ":", ":", "1", "]", ":", "3001">>,
    <<"public.example">> }

RECURSIVE BeforeColon(_)
\* host.split(":")[0]
BeforeColon(host) ==
  IF host = <<>> \/ Head(host) = ":" THEN <<>>
  ELSE <<Head(host)>> \o BeforeColon(Tail(host))

\* auth.ts isLocalhost: decided from the Host header alone
IsLocalhost(host) ==
  IF host = <<>> THEN FALSE
  ELSE LET hostname == BeforeColon(host) IN
       \/ hostname = <<"localhost">>
       \/ hostname = <<"127.0.0.1">>
       \/ hostname = <<":", ":", "1">>

\* The request path is the sequence of its segments, the sid that stands at
\* ":sid" (0 when none) and the extension its last segment ends with: "/ttyd/1/"
\* is [segs |-> <<"ttyd", ":sid", "">>, sid |-> 1, ext |-> ""].
HttpPath(segs, sid, suffix) == [segs |-> segs, sid |-> sid, ext |-> suffix]

StaticExts == {".js", ".css", ".woff", ".woff2", ".ttf", ".ico", ".svg", ".png", ".jpg"}

IsStaticAsset(path) ==
  \/ Len(path.segs) >= 2 /\ path.segs[1] = "assets"
  \/ path.ext \in StaticExts

\* validateToken
ValidateToken(enabled, token) == IF ~enabled THEN TRUE ELSE token = ProcessToken

\* (req.query.token as string) || req.headers["x-auth-token"]
RequestToken(req) == IF req.query \notin {NoHeader, ""} THEN req.query ELSE req.xAuthToken

\* auth.ts httpMiddleware, the middleware the server installs: "next" or "401"
HttpMiddleware(enabled, req) ==
  IF ~enabled THEN "next"
  ELSE IF IsLocalhost(req.host) THEN "next"
  ELSE IF IsStaticAsset(req.path) THEN "next"
  ELSE IF ValidateToken(enabled, RequestToken(req)) THEN "next"
  ELSE "401"

\* The second AuthManager, the one that follows the orchestrator in
\* session-orchestrator.ts; the server does not import it.
IsLocalhostHostname(host) == IsLocalhost(host)

\* An address is [kind |-> "v4", parts |-> <<a, b, c, d>>], an IPv4-mapped one
\* [kind |-> "mapped", parts |-> ...], any other IPv6 one [kind |-> "v6", text |-> ...]
Ip4(a, b, c, d) == [kind |-> "v4", parts |-> <<a, b, c, d>>]
Ip6(text) == [kind |-> "v6", text |-> text]

IsLocalIp(ip) ==
  IF ip.kind = "v6" THEN ip.text = "::1"
  ELSE LET parts == ip.parts IN
       \/ parts = <<127, 0, 0, 1>>
       \/ parts[1] = 10
       \/ parts[1] = 172 /\ parts[2] >= 16 /\ parts[2] <= 31
       \/ parts[1] = 192 /\ parts[2] = 168

\* X-Forwarded-For is the sequence of its comma-separated addresses, <<>> when
\* the request has none
ForwardedForValues ==
  { <<>>,
    <<Ip4(192, 168, 1, 2)>>,
    <<Ip4(203, 0, 113, 7), Ip4(10, 0, 0, 1)>> }

IsLocalRequest(req) ==
  IF req.xForwardedHost # NoHeader THEN FALSE
  ELSE IF req.xForwardedFor # <<>> THEN IsLocalIp(req.xForwardedFor[1])
  ELSE IsLocalhostHostname(req.host)

HttpMiddlewareForwarded(enabled, req) ==
  IF ~enabled THEN "next"
  ELSE IF IsLocalRequest(req) THEN "next"
  ELSE IF IsStaticAsset(req.path) THEN "next"
  ELSE IF ValidateToken(enabled, RequestToken(req)) THEN "next"
  ELSE "401"

PathValues ==
  { HttpPath(<<"ttyd", ":sid", "">>, 1, ""),
    HttpPath(<<"t", ":sid", "">>, 1, ""),
    HttpPath(<<"">>, 0, ""),
    HttpPath(<<"assets", "logo">>, 0, ""),
    HttpPath(<<"ttyd", ":sid", "app">>, 1, ".js") }

TokenValues == {NoHeader, "wrong", ProcessToken}

Requests ==
  [host : HostValues, xForwardedHost : {NoHeader, "public"},
   xForwardedFor : ForwardedForValues, path : PathValues,
   query : TokenValues, xAuthToken : TokenValues]

\* the requests that arrive through the public tunnel
TunnelRequests ==
  {req \in Requests : req.xForwardedHost # NoHeader /\ req.host = <<"public.example">>}

\* the route that answers a request the gate has passed on: app.use("/ttyd/:sessionId")
\* forwards to the gateway, every other path is left to the rest of the application
IsTtydRoute(path) == Len(path.segs) >= 2 /\ path.segs[1] = "ttyd"

\* a request to the express application: the gate, then the route
HttpRequest(req) ==
  LET gate == HttpMiddleware(authEnabled, req)
      proxy == IsTtydRoute(req.path)
  IN /\ up
     /\ last' = [op |-> "http", req |-> req, enabled |-> authEnabled, gate |-> gate,
                 route |-> IF gate = "401" THEN "none"
                           ELSE IF proxy THEN "proxy" ELSE "app",
                 status |-> IF gate = "401" THEN 401
                            ELSE IF proxy
                            THEN ProxyHttp(sessions, instances, db, req.path.sid).status
                            ELSE 200]
     /\ UNCHANGED <<up, ext, sessions, nextSid, instances, nextPort, procs, nextPid, db>>
     /\ UNCHANGED side

\* authManager.enable()
Enable ==
  /\ authEnabled' = TRUE
  /\ last' = [op |-> "enable"]
  /\ UNCHANGED <<up, ext, sessions, nextSid, instances, nextPort, procs, nextPid, db>>
  /\ UNCHANGED <<allowedRepos, listeners, range, keys, tunnel>>

\* authManager.disable()
Disable ==
  /\ authEnabled' = FALSE
  /\ last' = [op |-> "disable"]
  /\ UNCHANGED <<up, ext, sessions, nextSid, instances, nextPort, procs, nextPid, db>>
  /\ UNCHANGED <<allowedRepos, listeners, range, keys, tunnel>>

\* startServer of index.ts: with --remote it logs that Cloudflare Access is used
\* and leaves the AuthManager as it was constructed
StartServerAuth(enabled, remote) == enabled

\* ---------------------------------------------------- git worktree library
\* Paths and branch names are sequences of characters; "backtick" stands for the
\* grave accent.
DangerousChars == {";", "&", "|", "backtick", "$", "(", ")", "{", "}", "[", "]", "<", ">", "!"}

\* the working directory of the server process
ServerCwd == <<"/", "w">>

\* path.resolve: an absolute path stays, a relative one is put under the cwd
\* (the inputs hold no "." or ".." segment and no trailing slash)
Resolve(p) == IF p # <<>> /\ p[1] = "/" THEN p ELSE ServerCwd \o <<"/">> \o p

\* validatePath: ok is FALSE for throw new Error("Invalid characters in path")
ValidatePath(inputPath) ==
  LET resolved == Resolve(inputPath) IN
  [ok |-> \A i \in DOMAIN resolved : resolved[i] \notin DangerousChars, path |-> resolved]

\* the characters of [a-zA-Z0-9._\-/] among those the inputs are made of
BranchChars == {"a", "Z", "0", ".", "_", "-", "/"}

\* a validation that lets every branch name through
AnyBranchName(branch) == "ok"

\* validateBranchName: "ok", or the message of the Error it throws
ValidateBranchName(branch) ==
  IF ~(branch # <<>> /\ \A i \in DOMAIN branch : branch[i] \in BranchChars)
  THEN "Invalid branch name"
  ELSE IF \/ branch[1] = "-"
          \/ \E i \in 1..(Len(branch) - 1) : branch[i] = "." /\ branch[i + 1] = "."
  THEN "Invalid branch name pattern"
  ELSE "ok"

\* the directories of the machine that are the top of a git work tree
GitRepos == {<<"/", "a">>, <<"/", "c">>}

\* a git subprocess and the directory it runs in
Git(cmd, cwd) == [cmd |-> cmd, cwd |-> cwd]

\* isGitRepository: it throws on an invalid path, else it answers what
\* git rev-parse --is-inside-work-tree says; ran: the subprocesses it started
IsGitRepository(dirPath) ==
  LET v == ValidatePath(dirPath) IN
  [threw |-> ~v.ok, isRepo |-> v.ok /\ v.path \in GitRepos,
   ran |-> IF v.ok THEN <<Git("rev-parse --is-inside-work-tree", v.path)>> ELSE <<>>]

\* listWorktrees: err is "" when it returns the list, else the message it throws
ListWorktrees(repoPath) ==
  LET v == ValidatePath(repoPath)
      g == IsGitRepository(v.path)
  IN IF ~v.ok THEN [err |-> "Invalid characters in path", ran |-> <<>>]
     ELSE IF ~g.isRepo THEN [err |-> "Not a git repository", ran |-> g.ran]
     ELSE [err |-> "", ran |-> g.ran \o <<Git("worktree list --porcelain", v.path)>>]

\* createWorktree; destExists: fs.existsSync(worktreePath).  The base branch is
\* validated where baseRef is computed, after getGitRoot has run git.
CreateWorktree(repoPath, branchName, baseBranch, destExists) ==
  LET v == ValidatePath(repoPath)
      b == ValidateBranchName(branchName)
      root == <<Git("rev-parse --show-toplevel", v.path)>>
      base == IF baseBranch # <<>> THEN ValidateBranchName(baseBranch) ELSE "ok"
  IN IF ~v.ok THEN [err |-> "Invalid characters in path", ran |-> <<>>, created |-> FALSE]
     ELSE IF b # "ok" THEN [err |-> b, ran |-> <<>>, created |-> FALSE]
     ELSE IF v.path \notin GitRepos
     THEN [err |-> "git rev-parse failed", ran |-> root, created |-> FALSE]
     ELSE IF destExists
     THEN [err |-> "Directory already exists", ran |-> root, created |-> FALSE]
     ELSE IF base # "ok" THEN [err |-> base, ran |-> root, created |-> FALSE]
     ELSE [err |-> "",
           ran |-> root \o <<Git("worktree add -b", v.path)>> \o ListWorktrees(v.path).ran,
           created |-> TRUE]

\* ------------------------------------------- socket handlers of the server
\* an allow-list that accepts every path
EveryRepoAllowed(allowed, repoPath) == TRUE

\* the test of repo:select: allowedRepos.length > 0 && !allowedRepos.includes(repoPath)
RepoAllowed(allowed, repoPath) == allowed = {} \/ repoPath \in allowed

\* what a command handler leaves in `last`: the events it sent to its client, the
\* message of the error event, the git subprocesses it started
Handled(op, repoPath, emits, err, ran, created) ==
  [op |-> op, path |-> repoPath, emits |-> emits, err |-> err, ran |-> ran,
   created |-> created]

\* socket.on("repo:select")
RepoSelected(allowed, repoPath) ==
  LET g == IsGitRepository(repoPath)
      l == ListWorktrees(repoPath)
  IN IF ~RepoAllowed(allowed, repoPath)
     THEN Handled("repo:select", repoPath, <<"repo:error">>,
                  "Repository not in allowed list", <<>>, FALSE)
     ELSE IF g.threw
     THEN Handled("repo:select", repoPath, <<"repo:error">>,
                  "Invalid characters in path", <<>>, FALSE)
     ELSE IF ~g.isRepo
     THEN Handled("repo:select", repoPath, <<"repo:error">>,
                  "Not a valid git repository", g.ran, FALSE)
     ELSE IF l.err # ""
     THEN Handled("repo:select", repoPath, <<"repo:set", "repo:error">>, l.err,
                  g.ran \o l.ran, FALSE)
     ELSE Handled("repo:select", repoPath, <<"repo:set", "worktree:list">>, "",
                  g.ran \o l.ran, FALSE)

\* the frame of the handlers that only run git and answer their client
SocketFrame ==
  /\ UNCHANGED <<up, ext, sessions, nextSid, instances, nextPort, procs, nextPid, db>>
  /\ UNCHANGED side

RepoSelect(repoPath) ==
  /\ up
  /\ last' = RepoSelected(allowedRepos, repoPath)
  /\ SocketFrame

\* socket.on("worktree:list")
WorktreeList(repoPath) ==
  LET l == ListWorktrees(repoPath) IN
  /\ up
  /\ last' = Handled("worktree:list", repoPath,
                     IF l.err = "" THEN <<"worktree:list">> ELSE <<"worktree:error">>,
                     l.err, l.ran, FALSE)
  /\ SocketFrame

\* socket.on("worktree:create")
WorktreeCreate(repoPath, branchName, baseBranch, destExists) ==
  LET c == CreateWorktree(repoPath, branchName, baseBranch, destExists)
      l == ListWorktrees(repoPath)
  IN /\ up
     /\ last' = Handled("worktree:create", repoPath,
                        IF c.err # "" THEN <<"worktree:error">>
                        ELSE IF l.err # "" THEN <<"worktree:created", "worktree:error">>
                        ELSE <<"worktree:created", "worktree:list">>,
                        IF c.err # "" THEN c.err ELSE l.err,
                        IF c.err # "" THEN c.ran ELSE c.ran \o l.ran,
                        c.created)
                @@ [branch |-> branchName, base |-> baseBranch]
     /\ SocketFrame

\* the paths, branch names and base branches the clients send; <<>> as base branch
\* is a command without one
RepoPaths == {<<"/", "a">>, <<"/", "c">>, <<"/", "n">>, <<"/", "a", ";", "x">>, <<"c">>}
BranchNames ==
  {<<"a", "/", "a">>, <<"-", "a">>, <<"a", ".", ".", "a">>, <<".", ".", ";">>, <<"a", ";">>, <<>>}
BaseBranches == {<<>>, <<"a">>, <<"-", "a">>, <<"a", ";">>, <<".", ".">>}

\* the lists --repos can give the server
AllowLists == {{}, {<<"/", "a">>}, {<<"/", "a">>, <<"/", "n">>, <<"/", "a", ";", "x">>}}

\* ------------------------------------------------ client sockets of the server
Clients == {"c1", "c2"}

\* the orchestrator events every connection registers a listener for
ListenerEvents == {"session:created", "session:restored", "session:stopped"}

\* `listeners` holds <<client, event>> for every listener a connection registered
Connected(ls) == {l[1] : l \in ls}

\* sessionOrchestrator.on(event, ...) for the three events
On(ls, client) == ls \cup {<<client, e>> : e \in ListenerEvents}

\* a disconnect that unregisters the listeners of every client
OffEveryone(ls, client) == {}

\* sessionOrchestrator.off(event, ...) for the three listeners of this connection
Off(ls, client) == ls \ {<<client, e>> : e \in ListenerEvents}

\* what the listeners of the clients re-emit of the events of a step
Delivered(ls, events) ==
  [c \in Clients |-> SelectSeq(events, LAMBDA e : <<c, e>> \in ls)]

\* io.on("connection")
Connect(client) ==
  /\ up
  /\ client \notin Connected(listeners)
  /\ listeners' = On(listeners, client)
  /\ last' = [op |-> "connect", client |-> client, ev |-> <<>>,
              reply |-> <<"repos:list">>]
  /\ UNCHANGED <<up, ext, sessions, nextSid, instances, nextPort, procs, nextPid, db>>
  /\ UNCHANGED <<authEnabled, allowedRepos, range, keys, tunnel>>

\* socket.on("disconnect")
Disconnect(client) ==
  /\ up
  /\ client \in Connected(listeners)
  /\ listeners' = Off(listeners, client)
  /\ last' = [op |-> "disconnect", client |-> client, ev |-> <<>>, reply |-> <<>>]
  /\ UNCHANGED <<up, ext, sessions, nextSid, instances, nextPort, procs, nextPid, db>>
  /\ UNCHANGED <<authEnabled, allowedRepos, range, keys, tunnel>>

\* server.on("upgrade"): a request whose path matches /^\/ttyd\/([^/]+)/ is
\* handed to ttydProxy.ws or its socket destroyed; any other is left to Socket.IO
UpgradeRequest(req) ==
  LET u == ProxyUpgrade(sessions, instances, db, req.path.sid) IN
  /\ up
  /\ last' = [op |-> "upgrade", req |-> req, enabled |-> authEnabled,
              socket |-> IF IsTtydRoute(req.path) THEN u.socket ELSE "socket.io",
              target |-> IF IsTtydRoute(req.path) THEN u.target ELSE 0]
  /\ UNCHANGED <<up, ext, sessions, nextSid, instances, nextPort, procs, nextPid, db>>
  /\ UNCHANGED side

\* ---------------------------------------------------------- TunnelManager
\* A cloudflared child is "none" (not spawned), "running" (spawned, its tunnel
\* not registered yet), "connected" (alive, "Registered tunnel connection" seen),
\* "ended" (terminated, its close event not delivered yet) or "closed".
\* namedTunnelOptions.publicUrl
PublicUrl == "https://ccm.example"

\* TunnelManager.isRunning()
IsRunning(t) == t.process # NoChild

\* TunnelManager.getUrl()
GetUrl(t) == t.publicUrl

\* process.kill("SIGTERM") on a cloudflared child
KillChild(children, c) ==
  IF c \in DOMAIN children /\ children[c] \in {"running", "connected"}
  THEN [children EXCEPT ![c] = "ended"]
  ELSE children

\* TunnelManager.stop()
Stop(t) ==
  IF t.process # NoChild
  THEN [t EXCEPT !.child = KillChild(t.child, t.process),
                 !.process = NoChild, !.publicUrl = NoUrl]
  ELSE t

TunnelFrame ==
  /\ UNCHANGED <<up, ext, sessions, nextSid, instances, nextPort, procs, nextPid, db>>
  /\ UNCHANGED <<authEnabled, allowedRepos, listeners, range, keys>>

\* tunnel.start(): throws when a process is set, else spawns cloudflared and
\* waits for its connection
TunnelStart ==
  /\ IF IsRunning(tunnel)
     THEN /\ tunnel' = tunnel
          /\ last' = [op |-> "tstart", res |-> "error", child |-> NoChild, ev |-> <<>>]
     ELSE /\ tunnel.nextChild <= MaxTunnels
          /\ tunnel' = [tunnel EXCEPT !.process = tunnel.nextChild,
                                      !.child[tunnel.nextChild] = "running",
                                      !.nextChild = tunnel.nextChild + 1]
          /\ last' = [op |-> "tstart", res |-> "pending", child |-> tunnel.nextChild,
                      ev |-> <<>>]
  /\ TunnelFrame

\* handleOutput of child c sees "Registered tunnel connection" for the first time
TunnelConnected(c) ==
  /\ tunnel.child[c] = "running"
  /\ tunnel' = [tunnel EXCEPT !.child[c] = "connected", !.publicUrl = PublicUrl]
  /\ last' = [op |-> "turl", res |-> "ok", child |-> c, ev |-> <<"url">>]
  /\ TunnelFrame

\* the connection timer of the start that spawned child c fires: the start is
\* rejected and stop() is called
TunnelTimeout(c) ==
  /\ tunnel.child[c] = "running"
  /\ tunnel' = Stop(tunnel)
  /\ last' = [op |-> "ttimeout", res |-> "error", child |-> c, ev |-> <<>>]
  /\ TunnelFrame

\* tunnel.stop()
TunnelStop ==
  /\ tunnel' = Stop(tunnel)
  /\ last' = [op |-> "tstop", res |-> "ok", child |-> tunnel.process, ev |-> <<>>]
  /\ TunnelFrame

\* child c terminates on its own
TunnelChildEnds(c) ==
  /\ tunnel.child[c] \in {"running", "connected"}
  /\ tunnel' = [tunnel EXCEPT !.child[c] = "ended"]
  /\ last' = [op |-> "tend", res |-> "", child |-> c, ev |-> <<>>]
  /\ TunnelFrame

\* the close handler of the start that spawned child c
OnClose(t, c) == [t EXCEPT !.child[c] = "closed", !.process = NoChild, !.publicUrl = NoUrl]

\* the close event of child c is delivered
TunnelClose(c) ==
  /\ tunnel.child[c] = "ended"
  /\ tunnel' = OnClose(tunnel, c)
  /\ last' = [op |-> "tclose", res |-> "", child |-> c, ev |-> <<"close">>]
  /\ TunnelFrame

Next ==
  \/ \E w \in WorktreeIds, p \in CmdPaths : StartSession(w, p)
  \/ \E p \in CmdPaths : RestoreSession(p)
  \/ \E pid \in Pids : Ready(pid)
  \/ \E pid \in Pids : Timeout(pid)
  \/ \E pid \in Pids, c \in ExitCodes : EarlyExit(pid, c)
  \/ \E pid \in Pids : ProcExit(pid)
  \/ \E pid \in Pids : ExitEvent(pid)
  \/ \E s \in Sids : StopSession(s)
  \/ \E s \in Sids : SendMessage(s)
  \/ \E s \in Sids : SendSpecialKey(s)
  \/ \E p \in CmdPaths, r \in WorktreeReplies : WorktreeDelete(p, r)
  \/ Shutdown
  \/ \E u \in SUBSET {s \in Sids : ext[s] # NoWin} : Construct(u)
  \/ \E s \in Sids : ExternalKill(s)

Spec == Init /\ [][Next]_vars

\* the event loop delivers the exit event of every child that has ended
LiveSpec == Init /\ [][Next]_vars /\ \A pid \in Pids : WF_vars(ExitEvent(pid))

\* the AuthManager on its own: enable(), disable() and requests to its middleware
AuthNext ==
  \/ Enable
  \/ Disable
  \/ \E req \in Requests : HttpRequest(req)

AuthSpec == Init /\ [][AuthNext]_vars

\* the server launched with --remote, with sessions being started and requests
\* arriving
RemoteInit ==
  /\ OrchestratorInit
  /\ authEnabled = StartServerAuth(FALSE, TRUE)
  /\ allowedRepos = {}
  /\ listeners = {}
  /\ range = [startPort |-> BasePort, maxPort |-> MAX_PORT]
  /\ keys = NoKeys
  /\ tunnel = NewTunnelManager
  /\ last = [op |-> "launch"]

RemoteNext ==
  \/ \E w \in WorktreeIds, p \in CmdPaths : StartSession(w, p)
  \/ \E pid \in Pids : Ready(pid)
  \/ \E req \in TunnelRequests : HttpRequest(req)

RemoteSpec == RemoteInit /\ [][RemoteNext]_vars

\* the server launched with some allow-list, and its repository and worktree
\* commands
SocketInit ==
  /\ OrchestratorInit
  /\ authEnabled = FALSE
  /\ allowedRepos \in AllowLists
  /\ listeners = {}
  /\ range = [startPort |-> BasePort, maxPort |-> MAX_PORT]
  /\ keys = NoKeys
  /\ tunnel = NewTunnelManager
  /\ last = [op |-> "launch"]

SocketNext ==
  \/ \E p \in RepoPaths : RepoSelect(p)
  \/ \E p \in RepoPaths : WorktreeList(p)
  \/ \E p \in RepoPaths, b \in BranchNames, base \in BaseBranches, e \in BOOLEAN :
       WorktreeCreate(p, b, base, e)

SocketSpec == SocketInit /\ [][SocketNext]_vars

\* clients connecting and disconnecting while sessions are started and stopped
ClientNext ==
  \/ \E c \in Clients : Connect(c)
  \/ \E c \in Clients : Disconnect(c)
  \/ \E w \in WorktreeIds, p \in CmdPaths : StartSession(w, p)
  \/ \E pid \in Pids : Ready(pid)
  \/ \E s \in Sids : StopSession(s)

ClientSpec == Init /\ [][ClientNext]_vars

\* ------------------------------------------- TtydManager with a larger range
\* The manager alone, constructed with a range of PoolSize ports, serving
\* startInstance and stopInstance for PoolSize session ids.
PoolSids == 1..PoolSize
PoolPids == 1..PoolSize

\* new TtydManager(startPort, maxPort): the default start and a later one
PoolRanges ==
  { [startPort |-> BasePort, maxPort |-> BasePort + PoolSize - 1],
    [startPort |-> BasePort + 1, maxPort |-> BasePort + PoolSize] }

PoolInit ==
  /\ up = TRUE
  /\ ext = [s \in Sids |-> NoWin]
  /\ sessions = <<>>
  /\ nextSid = 1
  /\ db = [p \in CmdPaths |-> NoRow]
  /\ range \in PoolRanges
  /\ nextPort = range.startPort
  /\ instances = [s \in PoolSids |-> NoInst]
  /\ procs = [p \in PoolPids |-> NoProc]
  /\ nextPid = 1
  /\ authEnabled = FALSE
  /\ allowedRepos = {}
  /\ listeners = {}
  /\ keys = NoKeys
  /\ tunnel = NewTunnelManager
  /\ last = [op |-> "construct"]

PoolFrame ==
  /\ UNCHANGED <<up, ext, sessions, nextSid, nextPid, db>>
  /\ UNCHANGED side

\* what a findAvailablePort call leaves in `last`: the port it returned (0 when it
\* threw) and, as they were when it was called, the ports the instances held,
\* the ports of the children whose startInstance still waited, and nextPort
Acquired(port, inst, ps, np) ==
  [op |-> "acquire", port |-> port, held |-> UsedPorts(inst),
   waiting |-> {ps[q].port : q \in {r \in DOMAIN ps : ps[r].wait = "pending"}},
   from |-> np]

\* startInstance(sid) up to its await: the existing instance is returned, or
\* findAvailablePort throws, or a child is spawned on the port found
TtydStart(sid) ==
  LET port == ScanPorts(instances, nextPort, range.maxPort)
      free == {q \in PoolPids : procs[q] = NoProc}
      pid == CHOOSE q \in free : \A r \in free : q <= r
  IN IF instances[sid] # NoInst
     THEN /\ last' = [op |-> "existing"]
          /\ UNCHANGED <<instances, nextPort, procs>>
          /\ PoolFrame
     ELSE IF port = 0
     THEN /\ last' = Acquired(0, instances, procs, nextPort)
          /\ UNCHANGED <<instances, nextPort, procs>>
          /\ PoolFrame
     ELSE /\ free # {}
          /\ procs' = [procs EXCEPT ![pid] = StartedProc("start", sid, port, "", "", FALSE)]
          /\ nextPort' = WrapNextPort(port, range.maxPort)
          /\ last' = Acquired(port, instances, procs, nextPort)
          /\ UNCHANGED instances
          /\ PoolFrame

\* the child announces "Listening": this.instances.set, and the exit handler
TtydReady(pid) ==
  LET p == procs[pid] IN
  /\ p.wait = "pending"
  /\ p.st = "starting"
  /\ PortFree(procs, pid)
  /\ instances' = [instances EXCEPT ![p.sid] = [port |-> p.port, pid |-> pid]]
  /\ procs' = [procs EXCEPT ![pid] = [Settle(p) EXCEPT !.st = "listening", !.hooked = TRUE]]
  /\ last' = [op |-> "ready"]
  /\ UNCHANGED nextPort
  /\ PoolFrame

\* the child exits with a non-zero code before it is ready: startInstance throws
TtydEarlyExit(pid) ==
  /\ procs[pid].wait = "pending"
  /\ procs' = [procs EXCEPT ![pid] = NoProc]
  /\ last' = [op |-> "rejected"]
  /\ UNCHANGED <<instances, nextPort>>
  /\ PoolFrame

\* stopInstance(sid) of a recorded instance
TtydStop(sid) ==
  /\ instances[sid] # NoInst
  /\ procs' = StopInstanceProcs(instances, procs, sid)
  /\ instances' = StopInstanceMap(instances, sid)
  /\ last' = [op |-> "stop"]
  /\ UNCHANGED nextPort
  /\ PoolFrame

\* the child of a recorded instance has ended, killed by stopInstance or on its
\* own, and its exit handler runs
TtydExit(pid) ==
  /\ procs[pid].hooked
  /\ procs[pid].st \in {"listening", "dying"}
  /\ instances' = ExitHandlerMap(instances, procs[pid].sid)
  /\ procs' = [procs EXCEPT ![pid] = NoProc]
  /\ last' = [op |-> "exit"]
  /\ UNCHANGED nextPort
  /\ PoolFrame

PoolNext ==
  \/ \E s \in PoolSids : TtydStart(s)
  \/ \E pid \in PoolPids : TtydReady(pid)
  \/ \E pid \in PoolPids : TtydEarlyExit(pid)
  \/ \E s \in PoolSids : TtydStop(s)
  \/ \E pid \in PoolPids : TtydExit(pid)

PoolSpec == PoolInit /\ [][PoolNext]_vars

\* the commands and events that start and end gateways, in an orchestrator
\* process that keeps running
GatewayNext ==
  \/ \E w \in WorktreeIds, p \in CmdPaths : StartSession(w, p)
  \/ \E p \in CmdPaths : RestoreSession(p)
  \/ \E pid \in Pids : Ready(pid)
  \/ \E pid \in Pids : Timeout(pid)
  \/ \E pid \in Pids, c \in ExitCodes : EarlyExit(pid, c)
  \/ \E pid \in Pids : ProcExit(pid)
  \/ \E pid \in Pids : ExitEvent(pid)
  \/ \E s \in Sids : StopSession(s)

\* the 5 s timer of a startInstance call fires when the call still waits
TimerSpec == Init /\ [][GatewayNext]_vars /\ \A pid \in Pids : WF_vars(Timeout(pid))

\* sessions being started, and requests to their /ttyd/<sid> routes
ProxyNext ==
  \/ \E w \in WorktreeIds, p \in CmdPaths : StartSession(w, p)
  \/ \E pid \in Pids : Ready(pid)
  \/ \E sid \in Sids, rest \in RestPaths : ProxyWeb(sid, rest)
  \/ \E sid \in Sids, rest \in RestPaths : ProxyWs(sid, rest)

ProxySpec == Init /\ [][ProxyNext]_vars

\* windows being created and ended, and messages sent to them
SendNext ==
  \/ \E w \in WorktreeIds, p \in CmdPaths : StartSession(w, p)
  \/ \E sid \in Sids : ExternalKill(sid)
  \/ \E sid \in Sids, input \in Messages, cut \in BOOLEAN : SessionSend(sid, input, cut)

SendSpec == Init /\ [][SendNext]_vars

\* auth being enabled, sessions started, and requests of both kinds arriving
\* through the public tunnel
GateNext ==
  \/ Enable
  \/ \E w \in WorktreeIds, p \in CmdPaths : StartSession(w, p)
  \/ \E pid \in Pids : Ready(pid)
  \/ \E req \in TunnelRequests : HttpRequest(req)
  \/ \E req \in TunnelRequests : UpgradeRequest(req)

GateSpec == Init /\ [][GateNext]_vars

\* a TunnelManager being started and stopped while its children connect and end
TunnelNext ==
  \/ TunnelStart
  \/ TunnelStop
  \/ \E c \in TunnelChildren : TunnelConnected(c)
  \/ \E c \in TunnelChildren : TunnelTimeout(c)
  \/ \E c \in TunnelChildren : TunnelChildEnds(c)
  \/ \E c \in TunnelChildren : TunnelClose(c)

TunnelSpec == Init /\ [][TunnelNext]_vars

\* the worktree ids clients start sessions with, when there is more than one
ClientWorktreeIds == {"w1", "w2"}

\* sessions started under two worktree ids, stopped, and found again by a new
\* orchestrator process
IdNext ==
  \/ \E w \in ClientWorktreeIds, p \in CmdPaths : StartSession(w, p)
  \/ \E pid \in Pids : Ready(pid)
  \/ \E pid \in Pids : Timeout(pid)
  \/ \E s \in Sids : StopSession(s)
  \/ Shutdown
  \/ Construct({})

IdSpec == Init /\ [][IdNext]_vars

\* ------------------------------------------------------------------ claims
Alive(pid) == procs[pid].st \in {"starting", "listening"}

\* C1: all() never holds two Sessions with the same worktreePath, also for
\* windows discovered at startup whose working directory could not be read.
C1_OneSessionPerPath ==
  LET all == GetAllSessions(sessions, instances, db) IN
  \A i, j \in DOMAIN all : i # j => all[i].worktreePath # all[j].worktreePath

\* C2: a successful start of a path for which an earlier successful start has
\* returned a sid, with no stop since, returns that sid, creates no window and
\* starts no gateway.
C2_StartIdempotent ==
  (last.op = "start" /\ last.res = "ok" /\ last.prev # 0)
    => (last.sid = last.prev /\ ~last.created /\ ~last.spawned)

\* C3: two stop(sid) calls on a live session emit exactly one session:stopped
\* in total.
C3_StopTwiceOneEvent ==
  (last.op = "stop" /\ last.calls = 2 /\ last.live) => last.emits = 1

\* C4: two gateway children that are alive or being started never have the
\* same port, and no two Sessions have the same non-null gatewayPort.
C4_NoSharedPort ==
  /\ \A p, q \in Pids : (p # q /\ Alive(p) /\ Alive(q)) => procs[p].port # procs[q].port
  /\ \A s, t \in Sids : (s # t /\ instances[s] # NoInst /\ instances[t] # NoInst)
                           => instances[s].port # instances[t].port

\* C5: start and restore commands for one worktreePath never have two gateway
\* children of the same sid alive or being started.
C5_OneGatewayPerSid ==
  \A p, q \in Pids : (p # q /\ Alive(p) /\ Alive(q)) => procs[p].sid # procs[q].sid

C7_NoWindowLeft ==
  (last.op = "start" /\ last.res = "error" /\ last.created)
    => (last.sid \notin SessionIds(sessions) /\ ext[last.sid] = NoWin)

\* C8: a start of a new path that fails because every port of the range is held
\* by a live gateway leaves windows, instances and registry rows as before.
C8_ExhaustionNoChange ==
  (/\ last.op = "start" /\ last.res = "error" /\ last.why = "noport" /\ last.created
   /\ \A port \in Ports : \E s \in Sids :
        instances[s] # NoInst /\ instances[s].port = port
          /\ procs[instances[s].pid].st = "listening")
    => /\ SessionIds(sessions) = last.wins
       /\ {s \in Sids : ext[s] # NoWin} \subseteq last.wins
       /\ InstanceSids(instances) = last.gws
       /\ db = last.rows

\* C9: after stop(sid) on a live session that has a gateway and whose
\* worktreePath has a registry row: no instance and no window record for sid,
\* the row has status stopped, and session:stopped was emitted.
C9_StopPost ==
  (/\ last.op = "stop" /\ last.calls = 1 /\ last.live /\ last.gw
   /\ last.path \in CmdPaths /\ db[last.path] # NoRow)
    => /\ instances[last.sid] = NoInst
       /\ last.sid \notin SessionIds(sessions)
       /\ db[last.path].status = "stopped"
       /\ \E i \in DOMAIN last.ev : last.ev[i] = "session:stopped"

Range(f) == {f[i] : i \in DOMAIN f}

\* cleanup() has stopped every recorded gateway and touched no window
CleanupFrame ==
  (up /\ ~up')
    => /\ \A s \in Sids : instances'[s] = NoInst
       /\ \A pid \in Pids : Recorded(instances, procs, pid) => ~Alive(pid)'
       /\ sessions' = sessions
       /\ ext' = ext

SidsOfPath(sess, path) == {sess[i].id : i \in {j \in DOMAIN sess : sess[j].worktreePath = path}}

\* C11 as stated: restore on a path with a window always returns a Session with
\* non-null gatewayPort; restore on a path without a window emits nothing.
C11_RestoreAlwaysSession ==
  last.op = "restore"
    => /\ last.res # "error"
       /\ last.res = "none" => last.ev = <<>>
       /\ last.res = "ok" => (instances[last.sid] # NoInst /\ last.ev = <<"session:restored">>)

\* C11 amended: restore on a path without a window returns nothing, makes the
\* orchestrator emit no event (the handler answers session:restore_failed) and
\* changes no state; on a path with a window it addresses the sid of that window,
\* and unless the gateway start fails (the handler then answers
\* session:restore_failed) it returns a Session with non-null gatewayPort for
\* that sid and emits session:restored.
C11_Restore ==
  /\ [][\A p \in CmdPaths :
          RestoreSession(p) =>
            IF SidsOfPath(sessions, p) = {}
            THEN /\ last'.res = "none" /\ last'.ev = <<>>
                 /\ last'.reply = <<"session:restore_failed">>
                 /\ UNCHANGED <<up, ext, sessions, nextSid, instances, nextPort,
                                procs, nextPid, db>>
            ELSE /\ last'.res \in {"ok", "pending", "error"}
                 /\ last'.res = "ok" => last'.sid \in SidsOfPath(sessions, p)
                 /\ last'.res = "pending"
                      => /\ procs'[nextPid].sid \in SidsOfPath(sessions, p)
                         /\ procs'[nextPid].kind = "restore"]_vars
  /\ [](last.op = "restore" =>
          /\ last.res = "ok" => /\ instances[last.sid] # NoInst
                                /\ instances[last.sid].port \in Ports
                                /\ last.ev = <<"session:restored">>
                                /\ last.reply = <<"session:restored">>
          /\ last.res = "error" => /\ last.ev = <<>>
                                   /\ last.reply = <<"session:restore_failed">>)

\* a restore of a window that had no gateway has started one and returned
C11_Witness == last.op = "restore" /\ last.res = "ok" /\ last.spawned /\ ~last.created
                 /\ ToManagedSession(sessions[GetSession(sessions, last.sid)], "", instances).ttydPort # 0

C14_AlwaysCreated ==
  (last.op = "start" /\ last.res = "ok") => last.ev = <<"session:created">>

\* C14 amended: a successful start emits session:created when it created the
\* window and session:restored when it reused one; in both cases the handler
\* sends session:created with the Session to the client that issued the command.
C14_StartEvents ==
  (last.op = "start" /\ last.res = "ok")
    => /\ last.created => last.ev = <<"session:created">>
       /\ ~last.created => last.ev = <<"session:restored">>
       /\ last.reply = <<"session:created">>
       /\ instances[last.sid] # NoInst

\* a start has reused a window and started its gateway
C14_Witness == last.op = "start" /\ last.res = "ok" /\ ~last.created /\ last.spawned
                 /\ last.ev = <<"session:restored">>

\* C15: session:stop, session:send and session:key for a sid without a session
\* answer session:error, emit no session:stopped and change no state.
C15_UnknownSid ==
  /\ [](\A s \in Sids : GetSession(sessions, s) = 0
           => SendReply(SendKeysResult(sessions, ext, s)) = <<"session:error">>)
  /\ [][\A s \in Sids :
          (GetSession(sessions, s) = 0 /\ ~(last.op = "stop" /\ last.sid = s))
            => /\ (SendMessage(s) \/ SendSpecialKey(s))
                    => UNCHANGED <<up, ext, sessions, nextSid, instances, nextPort,
                                   procs, nextPid, db>>
               /\ StopSession(s)
                    => /\ last'.reply = <<"session:error">>
                       /\ \A i \in DOMAIN last'.ev : last'.ev[i] # "session:stopped"
                       /\ UNCHANGED <<up, ext, sessions, nextSid, instances, nextPort,
                                      procs, nextPid, db>>]_vars

\* C16: after worktree:delete of a path, whether the removal succeeded or
\* failed, no session of that path is left: the session was stopped (no
\* instance, no window, session:stopped emitted).
C16_DeleteStops ==
  (last.op = "wtdelete" /\ last.live)
    => /\ SidsOfPath(sessions, last.path) = {}
       /\ instances[last.sid] = NoInst
       /\ ext[last.sid] = NoWin
       /\ \E i \in DOMAIN last.ev : last.ev[i] = "session:stopped"

\* C17: a send or sendKey for a started sid whose window has been killed fails
\* with session-not-found, and a session that is still listed has status error
\* afterwards.
C17_KilledWindowError ==
  /\ [](\A s \in Sids : (s < nextSid /\ ext[s] = NoWin)
           => SendKeysResult(sessions, ext, s) = "notfound")
  /\ [][\A s \in Sids :
          (s < nextSid /\ ext[s] = NoWin /\ (SendMessage(s) \/ SendSpecialKey(s)))
            => \A i \in DOMAIN sessions' :
                 sessions'[i].id = s => MapTmuxStatus(sessions'[i].status) = "error"]_vars

\* C18: every Session of all() whose status is not stopped has its external
\* window.
C18_SessionHasWindow ==
  LET all == GetAllSessions(sessions, instances, db) IN
  \A i \in DOMAIN all : all[i].status # "stopped" => ext[all[i].id] # NoWin

\* the sids of the external windows whose name starts with "ccm-"
CcmWindows == {s \in Sids : ext[s] # NoWin}

\* C19 as stated: the orchestrator constructed after a cleanup lists exactly one
\* Session per external "ccm-" window, under the name without the prefix, none
\* for other windows, each with the worktreePath the session was started with.
C19_PriorPaths ==
  [][(~up /\ up') =>
       LET all == GetAllSessions(sessions', instances', db') IN
       /\ {all[i].id : i \in DOMAIN all} = CcmWindows
       /\ Len(all) = Cardinality(CcmWindows)
       /\ \A i \in DOMAIN all : all[i].worktreePath = ext[all[i].id]]_vars

\* C19 amended: the orchestrator constructed after a cleanup lists exactly one
\* Session per external "ccm-" window, under the name without the prefix, none
\* for other windows, without a gateway, each with the window's working
\* directory as worktreePath, or the empty path when it could not be read.
C19_Discovery ==
  [][(~up /\ up') =>
       LET all == GetAllSessions(sessions', instances', db') IN
       /\ {all[i].id : i \in DOMAIN all} = CcmWindows
       /\ Len(all) = Cardinality(CcmWindows)
       /\ \A i \in DOMAIN all :
            /\ all[i].worktreePath \in {ext[all[i].id], EmptyPath}
            /\ all[i].ttydPort = 0]_vars

\* a new orchestrator has discovered two windows, one of them unreadable
C19_Witness ==
  /\ last.op = "construct"
  /\ \E i, j \in DOMAIN sessions :
       sessions[i].worktreePath = EmptyPath /\ sessions[j].worktreePath \in CmdPaths

\* C20: an HTTP request for a sid without a Session, or whose Session has no
\* gatewayPort, is answered 404 and not forwarded; a request is forwarded only
\* to the port of the gateway instance of that sid; an upgrade request is
\* forwarded under the same condition and otherwise destroyed without a target.
C20_Proxy ==
  LET all == GetAllSessions(sessions, instances, db) IN
  \A sid \in Sids :
    LET r == ProxyHttp(sessions, instances, db, sid)
        u == ProxyUpgrade(sessions, instances, db, sid)
        absent == \A i \in DOMAIN all : all[i].id = sid => all[i].ttydPort = 0
    IN /\ absent => (r.status = 404 /\ r.target = 0
                      /\ u.socket = "destroyed" /\ u.target = 0)
       /\ r.target # 0 => (instances[sid] # NoInst /\ r.target = instances[sid].port)
       /\ u.target # 0 => (instances[sid] # NoInst /\ u.target = instances[sid].port)
       /\ ~absent => (r.target # 0 /\ u.socket = "proxied")

\* one sid is forwarded to its gateway while another sid has a window and no gateway
C20_Witness ==
  \E s, t \in Sids :
    /\ ProxyHttp(sessions, instances, db, s).target \in Ports
    /\ GetSession(sessions, t) # 0
    /\ ProxyHttp(sessions, instances, db, t).status = 404
    /\ ProxyUpgrade(sessions, instances, db, t).socket = "destroyed"

\* the request carries no token that is the process token
NoProcessToken(req) == req.query # ProcessToken /\ req.xAuthToken # ProcessToken

\* the request carries the process token, and no other token beside it
OnlyProcessToken(req) ==
  /\ ~NoProcessToken(req)
  /\ req.query \in {NoHeader, ProcessToken}
  /\ req.xAuthToken \in {NoHeader, ProcessToken}

\* C21: the decision of the auth gate.  With auth disabled every request is
\* passed on.  With auth enabled a request of local origin (no X-Forwarded-Host;
\* the first X-Forwarded-For hop, when there is one, loopback or private; else a
\* localhost Host) is passed on whatever its token; a request of non-local origin
\* to a non-static path is answered 401 without the process token and passed on
\* with it.
C21_AuthGate ==
  last.op = "http" =>
    LET req == last.req IN
    /\ ~last.enabled => last.gate = "next"
    /\ last.enabled /\ IsLocalRequest(req) => last.gate = "next"
    /\ last.enabled /\ ~IsLocalRequest(req) /\ ~IsStaticAsset(req.path)
         => /\ NoProcessToken(req) => last.gate = "401"
            /\ OnlyProcessToken(req) => last.gate = "next"


\* C22: on a server launched with --remote, a request to the gateway route of a
\* session that carries X-Forwarded-Host and no token is answered 401; with the
\* process token in ?token= it is proxied to the session's gateway.
C22_RemoteAuth ==
  (/\ last.op = "http"
   /\ IsTtydRoute(last.req.path)
   /\ ~IsStaticAsset(last.req.path)
   /\ instances[last.req.path.sid] # NoInst
   /\ last.req.xForwardedHost # NoHeader)
  => /\ (last.req.query = NoHeader /\ last.req.xAuthToken = NoHeader)
          => last.status = 401
     /\ last.req.query = ProcessToken
          => last.route = "proxy" /\ last.status = 200


\* C23: repo:select under a non-empty allow-list answers a path that is not in
\* the list with repo:error alone, neither repo:set nor worktree:list; a path
\* the list accepts and that is a repository is answered repo:set and then
\* worktree:list, in that order.
C23_RepoSelect ==
  last.op = "repo:select" =>
    /\ (allowedRepos # {} /\ last.path \notin allowedRepos)
         => last.emits = <<"repo:error">>
    /\ ((allowedRepos = {} \/ last.path \in allowedRepos)
        /\ ValidatePath(last.path).ok /\ Resolve(last.path) \in GitRepos)
         => last.emits = <<"repo:set", "worktree:list">>

\* repo:select of a repository that is not in the list has been rejected, and
\* one of a repository in the list accepted
C23_Witness ==
  /\ last.op = "repo:select"
  /\ allowedRepos # {}
  /\ Resolve(last.path) \in GitRepos
  /\ last.path \notin allowedRepos
  /\ last.emits = <<"repo:error">>

\* C24: under a non-empty allow-list no command that carries a repository path
\* acts on a repository outside the list: such a command starts no git
\* subprocess there and answers with its error event alone.
C24_AllowListEverywhere ==
  (/\ last.op \in {"repo:select", "worktree:list", "worktree:create"}
   /\ allowedRepos # {}
   /\ last.path \notin allowedRepos)
  => /\ last.ran = <<>>
     /\ last.emits \in {<<"repo:error">>, <<"worktree:error">>}

\* the branch rule: only [A-Za-z0-9._/-], no leading "-", no ".."
ViolatesBranchRule(b) ==
  \/ \E i \in DOMAIN b : b[i] \notin BranchChars
  \/ b # <<>> /\ b[1] = "-"
  \/ \E i \in 1..(Len(b) - 1) : b[i] = "." /\ b[i + 1] = "."

InvalidArgument ==
  {"Invalid characters in path", "Invalid branch name", "Invalid branch name pattern"}

C26_StopAbortsStart ==
  [][\A pid \in Pids :
       (/\ up
        /\ procs[pid].wait = "pending"
        /\ GetSession(sessions, procs[pid].sid) = 0
        /\ procs'[pid].wait # "pending")
       => /\ instances'[procs[pid].sid] = NoInst
          /\ procs'[pid].st \notin {"starting", "listening"}
          /\ db' = db
          /\ last'.ev = <<>>]_vars


\* C27: a disconnect unregisters exactly the listeners of the client that
\* disconnected, those of the other clients stay, and it leaves the terminal
\* windows, the gateway instances and the registry rows as they were; a client
\* without listeners is delivered no event, a client with listeners every
\* session:created, session:restored and session:stopped the orchestrator emits.
C27_Disconnect ==
  /\ [](\A c \in Clients :
          Delivered(listeners, last.ev)[c] =
            IF c \in Connected(listeners)
            THEN SelectSeq(last.ev, LAMBDA e : e \in ListenerEvents)
            ELSE <<>>)
  /\ [][last'.op = "disconnect" =>
          /\ Connected(listeners') = Connected(listeners) \ {last'.client}
          /\ \A l \in listeners : l[1] # last'.client => l \in listeners'
          /\ listeners' \subseteq listeners
          /\ UNCHANGED <<ext, sessions, instances, procs, db>>]_vars

\* a client has disconnected while another one stays connected and a session
\* with its gateway and its registry row exists
C27_Witness ==
  /\ last.op = "disconnect"
  /\ Connected(listeners) # {}
  /\ sessions # <<>>
  /\ InstanceSids(instances) # {}
  /\ \E p \in CmdPaths : db[p] # NoRow


\* the ports of the configured range that, when the port was asked for, neither
\* an instance held nor a start that still waited had been given
FreeInRange ==
  {p \in range.startPort..range.maxPort : p \notin last.held \cup last.waiting}

\* C28: findAvailablePort returns the lowest port of the configured range that no
\* gateway instance holds, also after a lower port has been released.
C28_LowestFree ==
  (last.op = "acquire" /\ FreeInRange # {})
  => /\ last.port \in FreeInRange
     /\ \A p \in FreeInRange : last.port <= p

\* C29: whenever a port of [startPort, maxPort] is not held, findAvailablePort
\* returns a port of that range, for each configured startPort, and it fails
\* exactly when every port of the range is held.
C29_FailsOnlyWhenFull ==
  last.op = "acquire" =>
    /\ FreeInRange # {} => last.port \in range.startPort..range.maxPort
    /\ FreeInRange = {} => last.port = 0


\* C30: every startInstance call completes: a call that waits for the readiness
\* of its child is resumed, by the child's "Listening", by its error or non-zero
\* exit, or by the timer, also when the child has ended with code 0 or by a
\* signal before it was ready.
C30_StartCompletes ==
  \A pid \in Pids : (procs[pid].wait = "pending") ~> (procs[pid].wait # "pending")

\* a child has ended with code 0 or by a signal and its startInstance call still
\* waits
C30_Witness ==
  \E pid \in Pids : up /\ procs[pid].st = "gone" /\ procs[pid].wait = "pending"

\* C31: when a gateway start fails (readiness timeout or child exit), its partial
\* state is cleaned: the spawned child is not left running, no instance is
\* recorded for that child, and no instance holds the port it was given.
C31_StartFailureCleans ==
  [][\A pid \in Pids :
       (/\ procs[pid].wait = "pending"
        /\ procs'[pid].wait # "pending"
        /\ last'.res = "error")
       => /\ procs'[pid].st \notin {"starting", "listening"}
          /\ \A s \in Sids : instances'[s] # NoInst => instances'[s].pid # pid
          /\ procs[pid].port \notin UsedPorts(instances')]_vars

\* the url the gateway is to receive for /t/<sid><rest>
RestUrl(rest) == IF rest = <<>> THEN <<"/">> ELSE rest

\* C32: the proxy strips the route prefix for plain HTTP requests and for
\* upgrade requests alike: a forwarded request reaches the gateway with the url
\* that follows the prefix ("/" when nothing follows), also when that url itself
\* contains the text of the prefix.
C32_PrefixStripped ==
  (last.op \in {"web", "ws"} /\ last.status = 200)
    => last.upstream = RestUrl(last.rest)

\* C33: sends to one session are serialized: a window receives the literal text
\* of a send and then the Enter of the same send before any key of another
\* send; a text without its Enter is the last key of a window that has ended.
C33_SendsSerialized ==
  \A sid \in Sids :
    LET ks == keys[sid] IN
    /\ \A i \in DOMAIN ks :
         IF ks[i].key = "text"
         THEN IF i < Len(ks)
              THEN ks[i + 1].key = "Enter" /\ ks[i + 1].send = ks[i].send
              ELSE ext[sid] = NoWin
         ELSE i > 1 /\ ks[i - 1].key = "text" /\ ks[i - 1].send = ks[i].send
    /\ \A i, j \in DOMAIN ks : ks[i].send = ks[j].send => (j - i) \in {-1, 0, 1}

\* one window has received two complete sends
C33_Witness ==
  \E sid \in Sids :
    /\ Len(keys[sid]) = 4
    /\ keys[sid][1].send # keys[sid][3].send
    /\ last.op = "send" /\ last.sid = sid /\ last.res = "ok"

\* C34: every gateway instance has a window record with the same sid.
C34_GatewayHasWindow ==
  \A sid \in Sids : instances[sid] # NoInst => sid \in SessionIds(sessions)

\* C35: the exit event of a gateway child that was stopped earlier does not touch
\* a newer instance of the same sid: the newer instance stays recorded with its
\* port, and no instance:stopped is emitted for it.
C35_LateExitKeepsNewer ==
  [][\A pid \in Pids :
       (/\ procs[pid].st = "dying"
        /\ procs[pid].code = "signal"
        /\ procs'[pid] = NoProc
        /\ last'.op = "exit"
        /\ instances[procs[pid].sid] # NoInst
        /\ instances[procs[pid].sid].pid # pid)
       => /\ instances'[procs[pid].sid] = instances[procs[pid].sid]
          /\ last'.ev = <<>>]_vars

\* how often event e stands in a sequence of events
Count(events, e) == Cardinality({i \in DOMAIN events : events[i] = e})

\* what client c receives for the last command when client `issuer` sent it: the
\* events its listeners re-emit, and the handler's reply when c is the issuer
Received(c, issuer) ==
  Delivered(listeners, last.ev)[c] \o (IF c = issuer THEN last.reply ELSE <<>>)

\* C36: per successful session:start every connected client, the issuer
\* included, receives exactly one session:created (new session) or exactly one
\* lifecycle event (reused window), and per stop of a live session exactly one
\* session:stopped.
C36_OneEventPerClient ==
  \A issuer \in Connected(listeners) : \A c \in Connected(listeners) :
    LET got == Received(c, issuer) IN
    /\ (last.op = "start" /\ last.res = "ok" /\ last.created)
         => Count(got, "session:created") = 1
    /\ (last.op = "start" /\ last.res = "ok" /\ ~last.created)
         => Count(got, "session:created") + Count(got, "session:restored") = 1
    /\ (last.op = "stop" /\ last.calls = 1 /\ last.live)
         => Count(got, "session:stopped") = 1

\* C37: with auth enabled, an upgrade request of non-local origin without the
\* process token is not forwarded to a gateway.
C37_UpgradeGuarded ==
  (/\ last.op = "upgrade"
   /\ last.enabled
   /\ ~IsLocalRequest(last.req)
   /\ NoProcessToken(last.req))
  => last.socket # "proxied"

\* C38: with auth enabled, an HTTP request of non-local origin without the
\* process token is not forwarded to a gateway, whatever its path ends with.
C38_NoTokenNoGateway ==
  (/\ last.op = "http"
   /\ last.enabled
   /\ ~IsLocalRequest(last.req)
   /\ NoProcessToken(last.req))
  => ~(last.route = "proxy" /\ last.status = 200)

\* C39: the tunnel controller agrees with its child.  isRunning() holds while a
\* child it started is alive and only while one has not been closed; getUrl() is
\* non-null only while it is running; start() while running fails and changes
\* nothing; the close event of a child that is no longer the controller's
\* process leaves the process and the URL of the current tunnel in place; each
\* delivered child exit emits close once.
C39_TunnelConsistent ==
  /\ [](/\ (\E c \in TunnelChildren : tunnel.child[c] \in {"running", "connected"})
             => IsRunning(tunnel)
        /\ IsRunning(tunnel)
             => tunnel.child[tunnel.process] \in {"running", "connected", "ended"}
        /\ GetUrl(tunnel) # NoUrl => IsRunning(tunnel))
  /\ [][/\ (last'.op = "tstart" /\ IsRunning(tunnel))
             => (last'.res = "error" /\ tunnel' = tunnel)
        /\ \A c \in TunnelChildren :
             (tunnel.child[c] = "ended" /\ tunnel'.child[c] = "closed")
               => /\ last'.ev = <<"close">>
                  /\ (tunnel.process # c /\ IsRunning(tunnel))
                       => /\ tunnel'.process = tunnel.process
                          /\ tunnel'.publicUrl = tunnel.publicUrl]_vars

\* C40: the worktreeId of a session is stable.  When start(wId, wPath) returns,
\* the session the orchestrator projects for its sid carries wId, and as long as
\* the window record of a sid exists no step changes the worktreeId projected
\* for it.
C40_WorktreeIdStable ==
  [][/\ \A pid \in Pids :
          (/\ procs[pid].wait = "pending"
           /\ procs[pid].kind = "start"
           /\ procs'[pid].wait = "done"
           /\ last'.op = "start"
           /\ last'.res = "ok"
           /\ GetSession(sessions', procs[pid].sid) # 0)
          => WorktreeIdOf(sessions', db', procs[pid].sid) = procs[pid].wId
     /\ \A sid \in Sids :
          (/\ GetSession(sessions, sid) # 0
           /\ GetSession(sessions', sid) # 0
           /\ WorktreeIdOf(sessions, db, sid) # "")
          => WorktreeIdOf(sessions', db', sid) = WorktreeIdOf(sessions, db, sid)]_vars

====
